---- MODULE Spec2Model ----
(***************************************************************************)
(* cert-manager DNS01 webhook solver for the do.de API (main.go).          *)
(*                                                                         *)
(* Text is modelled as a sequence of symbols: a literal of a format string *)
(* contributes its symbols, an argument contributes its own symbols, and   *)
(* fmt.Sprintf is concatenation.  The empty text <<>> is Go's "" and, for  *)
(* an error, Go's nil (every error the code builds has a non-empty text).  *)
(***************************************************************************)
EXTENDS Naturals, Sequences, FiniteSets

VARIABLES
    client,        \* dodeDNSProviderSolver.client: "nil" or "set"
    stopped,       \* the webhook process ended (Initialize failed)
    secrets,       \* the Kubernetes secret store: <<namespace, name>> -> secret
    health,        \* how the do.de endpoint answers the next exchange
    providerMode,  \* what a publish does to the zone: "append" or "replace"
    zone,          \* the provider's TXT records: a set of <<domain, value>>
    last,          \* the most recent Present/CleanUp call and what it did
    normIn,        \* removeDOT: the input string
    normOut        \* removeDOT: the results of its successive applications

vars == <<client, stopped, secrets, health, providerMode, zone, last, normIn, normOut>>

solverVars == <<client, stopped, secrets, health, providerMode, zone, last>>

normVars == <<normIn, normOut>>

----------------------------------------------------------------------------
(* Bounds *)

\* longest input string given to removeDOT
MaxLen == 6

\* how many times removeDOT is applied in a row to one input
MaxApply == 2

----------------------------------------------------------------------------
(* Text *)

NoErr == <<>>

HasSuffix(s, suffix) ==
    /\ Len(s) >= Len(suffix)
    /\ SubSeq(s, Len(s) - Len(suffix) + 1, Len(s)) = suffix

TrimSuffix(s, suffix) ==
    IF HasSuffix(s, suffix) THEN SubSeq(s, 1, Len(s) - Len(suffix)) ELSE s

\* the back quote character of a format string
Backtick == <<"(backtick)">>

\* the %q verb on a string
Quote(s) == <<"\"">> \o s \o <<"\"">>

----------------------------------------------------------------------------
(* removeDOT *)

\* a slip: the last byte is cut off whether or not it is a dot
removeDOTUnchecked(fqdnURL) ==
    IF Len(fqdnURL) > 0 THEN SubSeq(fqdnURL, 1, Len(fqdnURL) - 1) ELSE fqdnURL

removeDOT(fqdnURL) ==
    IF HasSuffix(fqdnURL, <<".">>)
    THEN TrimSuffix(fqdnURL, <<".">>)
    ELSE fqdnURL

----------------------------------------------------------------------------
(* The data a behaviour draws from *)

Namespaces == {<<"ns1">>, <<"ns2">>}

\* the one secret name and data key the deployment uses
SecretName == <<"dode">>

TokenKey == <<"token">>

\* the API token held in the secret
Credential == <<"s3cr3t">>

\* a secret of the store: absent, present without the token key, present with it
NoSecret == [exists |-> FALSE, Data |-> [k \in {} |-> <<>>]]

SecretWithoutKey == [exists |-> TRUE, Data |-> [k \in {<<"other">>} |-> <<"x">>]]

SecretWithKey == [exists |-> TRUE, Data |-> [k \in {TokenKey} |-> Credential]]

SecretStates == {NoSecret, SecretWithoutKey, SecretWithKey}

\* ChallengeRequest.Config: a nil *extapi.JSON, or raw bytes of one of these shapes
RawJSON(kind, name, key) == [kind |-> kind, name |-> name, key |-> key]

NilJSON == [isNil |-> TRUE, Raw |-> RawJSON("none", <<>>, <<>>)]

ConfigPayloads ==
    {NilJSON}
    \cup {[isNil |-> FALSE, Raw |-> r] :
            r \in {RawJSON("null", <<>>, <<>>),          \* null
                   RawJSON("malformed", <<>>, <<>>),     \* {"apiTokenSecretRef":
                   RawJSON("array", <<>>, <<>>),         \* []
                   RawJSON("object", <<>>, <<>>),        \* {}
                   RawJSON("object", SecretName, TokenKey)}}

\* ChallengeRequest.ResolvedFQDN, as cert-manager sends it and without the dot
ChallengeFQDNs == {<<"_acme-challenge", ".", "example", ".", "com", ".">>,
                   <<"_acme-challenge", ".", "example", ".", "com">>}

\* ChallengeRequest.Key
ChallengeKeys == {<<"k1">>, <<"k2">>}

ChallengeRequests ==
    [ResolvedFQDN : ChallengeFQDNs, Key : ChallengeKeys,
     ResourceNamespace : Namespaces, Config : ConfigPayloads]

----------------------------------------------------------------------------
(* loadConfig *)

ZeroConfig == [APITokenSecretRef |-> [Name |-> <<>>, Key |-> <<>>]]

\* json.Unmarshal(raw, &cfg) on a zero dodeDNSProviderConfig
jsonUnmarshalConfig(raw) ==
    CASE raw.kind = "null" -> [cfg |-> ZeroConfig, err |-> NoErr]
      [] raw.kind = "object" ->
            [cfg |-> [APITokenSecretRef |-> [Name |-> raw.name, Key |-> raw.key]],
             err |-> NoErr]
      [] raw.kind = "array" ->
            [cfg |-> ZeroConfig,
             err |-> <<"json: cannot unmarshal array into Go value of type ",
                       "main.dodeDNSProviderConfig">>]
      [] OTHER -> [cfg |-> ZeroConfig, err |-> <<"unexpected end of JSON input">>]

\* a slip: the nil payload is handed to the decoder
loadConfigNoBaseCase(cfgJSON) ==
    LET u == jsonUnmarshalConfig(cfgJSON.Raw)
    IN  IF u.err # NoErr
        THEN [cfg |-> u.cfg, err |-> <<"error decoding solver config: ">> \o u.err]
        ELSE [cfg |-> u.cfg, err |-> NoErr]

loadConfig(cfgJSON) ==
    IF cfgJSON.isNil
    THEN [cfg |-> ZeroConfig, err |-> NoErr]
    ELSE LET u == jsonUnmarshalConfig(cfgJSON.Raw)
         IN  IF u.err # NoErr
             THEN [cfg |-> u.cfg,
                   err |-> <<"error decoding solver config: ">> \o u.err]
             ELSE [cfg |-> u.cfg, err |-> NoErr]

----------------------------------------------------------------------------
(* getAPIKey *)

\* c.client.CoreV1().Secrets(namespace).Get(ctx, secretName, ...)
secretsGet(namespace, secretName) ==
    IF secretName = SecretName /\ secrets[namespace].exists
    THEN [sec |-> secrets[namespace], err |-> NoErr]
    ELSE [sec |-> NoSecret,
          err |-> IF secretName = <<>>
                  THEN <<"resource name may not be empty">>
                  ELSE <<"secrets ">> \o Quote(secretName) \o <<" not found">>]

\* a slip: the map lookup's ok is not tested, a missing key yields ""
getAPIKeyNoOkCheck(cfg, namespace) ==
    LET secretName == cfg.APITokenSecretRef.Name
        got == secretsGet(namespace, secretName)
        key == cfg.APITokenSecretRef.Key
    IN  IF got.err # NoErr
        THEN [apiKey |-> <<>>,
              err |-> <<"unable to get secret ">> \o Backtick \o secretName \o Backtick
                      \o <<"; ">>
                      \o got.err]
        ELSE [apiKey |-> IF key \in DOMAIN got.sec.Data
                         THEN got.sec.Data[key] ELSE <<>>,
              err |-> NoErr]

getAPIKey(cfg, namespace) ==
    LET secretName == cfg.APITokenSecretRef.Name
        got == secretsGet(namespace, secretName)
        key == cfg.APITokenSecretRef.Key
    IN  IF got.err # NoErr
        THEN [apiKey |-> <<>>,
              err |-> <<"unable to get secret ">> \o Backtick \o secretName \o Backtick
                      \o <<"; ">>
                      \o got.err]
        ELSE IF key \notin DOMAIN got.sec.Data
        THEN [apiKey |-> <<>>,
              err |-> <<"key ">> \o Quote(key) \o <<" not found in secret ", "\"">>
                      \o cfg.APITokenSecretRef.Name \o <<"/">> \o namespace
                      \o <<"\"">>]
        ELSE [apiKey |-> got.sec.Data[key], err |-> NoErr]

----------------------------------------------------------------------------
(* The do.de endpoint, as the solver's HTTP client sees it *)

DodeAPIURL == <<"https://www.do.de/api/letsencrypt">>

HealthStates == {"up", "down", "lostReply", "html", "rateLimited", "emptyObject"}

ProviderModes == {"append", "replace"}

RECURSIVE SplitOn(_, _)
\* the pieces of s between the occurrences of the symbol sep
SplitOn(s, sep) ==
    IF \E i \in 1..Len(s) : s[i] = sep
    THEN LET i == CHOOSE k \in 1..Len(s) :
                    s[k] = sep /\ \A j \in 1..(k - 1) : s[j] # sep
         IN  <<SubSeq(s, 1, i - 1)>> \o SplitOn(SubSeq(s, i + 1, Len(s)), sep)
    ELSE <<s>>

\* the query parameters of a URL, as the set of <<name, value>> it carries
ParseQuery(url) ==
    LET parts == SplitOn(url, "?")
        query == IF Len(parts) < 2 THEN <<>> ELSE SubSeq(url, Len(parts[1]) + 2, Len(url))
        pairs == SplitOn(query, "&")
        Pair(seg) == LET nv == SplitOn(seg, "=")
                     IN  <<nv[1], SubSeq(seg, Len(nv[1]) + 2, Len(seg))>>
    IN  {Pair(pairs[i]) : i \in {k \in 1..Len(pairs) : pairs[k] # <<>>}}

QueryHas(q, name) == \E p \in q : p[1] = name

QueryGet(q, name) == IF QueryHas(q, name) THEN (CHOOSE p \in q : p[1] = name)[2] ELSE <<>>

\* the endpoint acts on a request it receives, when the token is the account's
Authenticated(url) == QueryGet(ParseQuery(url), <<"token">>) = Credential

\* the zone after the endpoint has carried out one request
ProviderApply(z, url) ==
    LET q == ParseQuery(url)
        domain == QueryGet(q, <<"domain">>)
        others == {r \in z : r[1] # domain}
    IN  IF ~Authenticated(url) THEN z
        ELSE IF QueryGet(q, <<"action">>) = <<"delete">> THEN others
        ELSE IF ~QueryHas(q, <<"value">>) THEN z
        ELSE IF providerMode = "append"
        THEN z \cup {<<domain, QueryGet(q, <<"value">>)>>}
        ELSE others \cup {<<domain, QueryGet(q, <<"value">>)>>}

RECURSIVE ProviderApplyAll(_, _)
ProviderApplyAll(z, urls) ==
    IF urls = <<>> THEN z
    ELSE ProviderApplyAll(ProviderApply(z, Head(urls)), Tail(urls))

\* whether a request sent now reaches the endpoint and is carried out
Delivered == health \in {"up", "lostReply"}

JSONBody(kind, success, error) == [kind |-> kind, success |-> success, error |-> error]

\* client.Get(url), with the client's 30 s timeout
clientGet(url) ==
    CASE health = "down" ->
            [err |-> <<"Get ">> \o Quote(url) \o <<": dial tcp: connection refused">>,
             body |-> JSONBody("none", "absent", <<>>)]
      [] health = "lostReply" ->
            [err |-> <<"Get ">> \o Quote(url) \o <<": context deadline exceeded">>,
             body |-> JSONBody("none", "absent", <<>>)]
      [] health = "html" ->
            [err |-> NoErr, body |-> JSONBody("notjson", "absent", <<>>)]
      [] health = "rateLimited" ->
            [err |-> NoErr, body |-> JSONBody("object", "false", <<"rate limited">>)]
      [] health = "emptyObject" ->
            [err |-> NoErr, body |-> JSONBody("object", "absent", <<>>)]
      [] OTHER ->
            IF Authenticated(url)
            THEN [err |-> NoErr, body |-> JSONBody("object", "true", <<>>)]
            ELSE [err |-> NoErr, body |-> JSONBody("object", "false", <<"invalid token">>)]

----------------------------------------------------------------------------
(* makeRequest *)

\* json.NewDecoder(resp.Body).Decode(&r) on a zero APIResponse
decodeAPIResponse(body) ==
    IF body.kind = "object"
    THEN [r |-> [Success |-> body.success = "true", Error |-> body.error],
          err |-> NoErr]
    ELSE [r |-> [Success |-> FALSE, Error |-> <<>>],
          err |-> <<"invalid character '<' looking for beginning of value">>]

\* a slip: the decoded success flag is not tested
makeRequestIgnoreSuccess(method, uri) ==
    LET url == DodeAPIURL \o uri
        got == clientGet(url)
        dec == decodeAPIResponse(got.body)
    IN  IF got.err # NoErr
        THEN [ok |-> FALSE, sent |-> <<url>>,
              err |-> <<"Error querying DODE API for ">> \o method \o <<" ">>
                      \o Quote(url) \o <<" -> ">> \o got.err]
        ELSE IF dec.err # NoErr
        THEN [ok |-> FALSE, sent |-> <<url>>, err |-> dec.err]
        ELSE [ok |-> TRUE, sent |-> <<url>>, err |-> NoErr]

\* a slip: a failed exchange is tried a second time
makeRequestRetry(method, uri) ==
    LET url == DodeAPIURL \o uri
        got == clientGet(url)
        dec == decodeAPIResponse(got.body)
    IN  IF got.err # NoErr
        THEN [ok |-> FALSE, sent |-> <<url, url>>,
              err |-> <<"Error querying DODE API for ">> \o method \o <<" ">>
                      \o Quote(url) \o <<" -> ">> \o got.err]
        ELSE IF dec.err # NoErr
        THEN [ok |-> FALSE, sent |-> <<url, url>>, err |-> dec.err]
        ELSE IF ~dec.r.Success
        THEN [ok |-> FALSE, sent |-> <<url, url>>,
              err |-> <<"DODE API error for ">> \o method \o <<" ">> \o Quote(uri)
                      \o <<" ">> \o dec.r.Error]
        ELSE [ok |-> dec.r.Success, sent |-> <<url>>, err |-> NoErr]

makeRequest(method, uri) ==
    LET url == DodeAPIURL \o uri
        got == clientGet(url)
        dec == decodeAPIResponse(got.body)
    IN  IF got.err # NoErr
        THEN [ok |-> FALSE, sent |-> <<url>>,
              err |-> <<"Error querying DODE API for ">> \o method \o <<" ">>
                      \o Quote(url) \o <<" -> ">> \o got.err]
        ELSE IF dec.err # NoErr
        THEN [ok |-> FALSE, sent |-> <<url>>, err |-> dec.err]
        ELSE IF ~dec.r.Success
        THEN [ok |-> FALSE, sent |-> <<url>>,
              err |-> <<"DODE API error for ">> \o method \o <<" ">> \o Quote(uri)
                      \o <<" ">> \o dec.r.Error]
        ELSE [ok |-> dec.r.Success, sent |-> <<url>>, err |-> NoErr]

----------------------------------------------------------------------------
(* Present and CleanUp *)

\* what one call did: the functions it ran in order, the config it decoded, the
\* secret-store reads and the URLs it issued, the token it resolved, each
\* step's error and the error it returned
Outcome(steps, cfg, gets, sent, apiKey, cfgErr, keyErr, reqErr, err) ==
    [steps |-> steps, cfg |-> cfg, gets |-> gets, sent |-> sent, apiKey |-> apiKey,
     cfgErr |-> cfgErr, keyErr |-> keyErr, reqErr |-> reqErr, err |-> err]

\* fmt.Sprintf("?token=%s&domain=%s&value=%s", ...)
PresentQuery(apiKey, ch) ==
    <<"?", "token", "=">> \o apiKey
    \o <<"&", "domain", "=">> \o removeDOT(ch.ResolvedFQDN)
    \o <<"&", "value", "=">> \o ch.Key

\* a slip: the record's value is sent along with the delete
CleanUpQueryWithValue(apiKey, ch) ==
    <<"?", "token", "=">> \o apiKey
    \o <<"&", "domain", "=">> \o removeDOT(ch.ResolvedFQDN)
    \o <<"&", "value", "=">> \o ch.Key
    \o <<"&", "action", "=", "delete">>

\* fmt.Sprintf("?token=%s&domain=%s&action=delete", ...)
CleanUpQuery(apiKey, ch) ==
    <<"?", "token", "=">> \o apiKey
    \o <<"&", "domain", "=">> \o removeDOT(ch.ResolvedFQDN)
    \o <<"&", "action", "=", "delete">>

\* a slip: the error of getAPIKey is logged and the call goes on
PresentOutcomeNoReturn(ch) ==
    LET c == loadConfig(ch.Config)
        k == getAPIKey(c.cfg, ch.ResourceNamespace)
        get == <<<<ch.ResourceNamespace, c.cfg.APITokenSecretRef.Name>>>>
        m == makeRequest(<<"GET">>, PresentQuery(k.apiKey, ch))
    IN  IF c.err # NoErr
        THEN Outcome(<<"loadConfig">>, c.cfg, <<>>, <<>>, <<>>,
                     c.err, NoErr, NoErr, c.err)
        ELSE Outcome(<<"loadConfig", "getAPIKey", "makeRequest">>, c.cfg, get, m.sent,
                     k.apiKey, NoErr, k.err, m.err, m.err)

PresentOutcome(ch) ==
    LET c == loadConfig(ch.Config)
        k == getAPIKey(c.cfg, ch.ResourceNamespace)
        get == <<<<ch.ResourceNamespace, c.cfg.APITokenSecretRef.Name>>>>
        m == makeRequest(<<"GET">>, PresentQuery(k.apiKey, ch))
    IN  IF c.err # NoErr
        THEN Outcome(<<"loadConfig">>, c.cfg, <<>>, <<>>, <<>>,
                     c.err, NoErr, NoErr, c.err)
        ELSE IF k.err # NoErr
        THEN Outcome(<<"loadConfig", "getAPIKey">>, c.cfg, get, <<>>, <<>>,
                     NoErr, k.err, NoErr, k.err)
        ELSE Outcome(<<"loadConfig", "getAPIKey", "makeRequest">>, c.cfg, get, m.sent,
                     k.apiKey, NoErr, NoErr, m.err, m.err)

CleanUpOutcome(ch) ==
    LET c == loadConfig(ch.Config)
        k == getAPIKey(c.cfg, ch.ResourceNamespace)
        get == <<<<ch.ResourceNamespace, c.cfg.APITokenSecretRef.Name>>>>
        m == makeRequest(<<"GET">>, CleanUpQuery(k.apiKey, ch))
    IN  IF c.err # NoErr
        THEN Outcome(<<"loadConfig">>, c.cfg, <<>>, <<>>, <<>>,
                     c.err, NoErr, NoErr, c.err)
        ELSE IF k.err # NoErr
        THEN Outcome(<<"loadConfig", "getAPIKey">>, c.cfg, get, <<>>, <<>>,
                     NoErr, k.err, NoErr, k.err)
        ELSE Outcome(<<"loadConfig", "getAPIKey", "makeRequest">>, c.cfg, get, m.sent,
                     k.apiKey, NoErr, NoErr, m.err, m.err)

----------------------------------------------------------------------------
(* The solver *)

NoRequest ==
    [ResolvedFQDN |-> <<>>, Key |-> <<>>, ResourceNamespace |-> <<>>,
     Config |-> NilJSON]

\* no call has returned since the environment last changed
NoCall ==
    [op |-> "none", ch |-> NoRequest,
     again |-> FALSE,
     out |-> Outcome(<<>>, ZeroConfig, <<>>, <<>>, <<>>, NoErr, NoErr, NoErr, NoErr)]

\* Initialize: kubernetes.NewForConfig succeeds or fails; on failure the
\* webhook server does not start
Initialize(configOK) ==
    /\ client = "nil"
    /\ ~stopped
    /\ IF configOK
       THEN client' = "set" /\ UNCHANGED stopped
       ELSE stopped' = TRUE /\ UNCHANGED client
    /\ UNCHANGED <<secrets, health, providerMode, zone, last>>

\* one call runs to its return: the endpoint carries out what the call sent,
\* and the call's record replaces the previous one (again: the previous call
\* had the same arguments and nothing changed in between)
Serve(op, ch, o) ==
    /\ last' = [op |-> op, ch |-> ch, again |-> (last.op = op /\ last.ch = ch),
                out |-> o]
    /\ zone' = IF Delivered THEN ProviderApplyAll(zone, o.sent) ELSE zone
    /\ UNCHANGED <<client, stopped, secrets, health, providerMode>>

\* a slip: the solver remembers what it presented and refuses a repeat
PresentOnce(ch) ==
    /\ client = "set"
    /\ IF last.op = "Present" /\ last.ch = ch /\ last.out.err = NoErr
       THEN Serve("Present", ch,
                  Outcome(<<>>, ZeroConfig, <<>>, <<>>, <<>>, NoErr, NoErr, NoErr,
                          <<"record already presented">>))
       ELSE Serve("Present", ch, PresentOutcome(ch))

\* the webhook server serves requests once Initialize has set the client
Present(ch) ==
    /\ client = "set"
    /\ Serve("Present", ch, PresentOutcome(ch))

CleanUp(ch) ==
    /\ client = "set"
    /\ Serve("CleanUp", ch, CleanUpOutcome(ch))

\* an operator creates, edits or deletes the secret of a namespace
SetSecret(namespace, sec) ==
    /\ secrets[namespace] # sec
    /\ secrets' = [secrets EXCEPT ![namespace] = sec]
    /\ last' = NoCall
    /\ UNCHANGED <<client, stopped, health, providerMode, zone>>

\* the endpoint, or the network to it, changes its behaviour
SetHealth(h) ==
    /\ health # h
    /\ health' = h
    /\ last' = NoCall
    /\ UNCHANGED <<client, stopped, secrets, providerMode, zone>>

Init ==
    /\ client = "nil"
    /\ stopped = FALSE
    /\ secrets \in [Namespaces -> SecretStates]
    /\ health \in HealthStates
    /\ providerMode \in ProviderModes
    /\ zone = {}
    /\ last = NoCall
    /\ normIn = <<>>
    /\ normOut = <<>>

Next ==
    \/ \E configOK \in BOOLEAN : Initialize(configOK) /\ UNCHANGED normVars
    \/ \E ch \in ChallengeRequests : Present(ch) /\ UNCHANGED normVars
    \/ \E ch \in ChallengeRequests : CleanUp(ch) /\ UNCHANGED normVars
    \/ \E namespace \in Namespaces, sec \in SecretStates :
            SetSecret(namespace, sec) /\ UNCHANGED normVars
    \/ \E h \in HealthStates : SetHealth(h) /\ UNCHANGED normVars

Spec == Init /\ [][Next]_vars

----------------------------------------------------------------------------
(* removeDOT applied to arbitrary strings *)

Chars == {"a", "."}

Strings == UNION {[1..n -> Chars] : n \in 0..MaxLen}

Normalize ==
    /\ Len(normOut) < MaxApply
    /\ normOut' = Append(normOut,
                         removeDOT(IF normOut = <<>> THEN normIn
                                   ELSE normOut[Len(normOut)]))
    /\ UNCHANGED normIn

InitNorm ==
    /\ normIn \in Strings
    /\ normOut = <<>>
    /\ client = "nil"
    /\ stopped = FALSE
    /\ secrets = [n \in Namespaces |-> NoSecret]
    /\ health = "up"
    /\ providerMode = "append"
    /\ zone = {}
    /\ last = NoCall

NextNorm == Normalize /\ UNCHANGED solverVars

SpecNorm == InitNorm /\ [][NextNorm]_vars

----------------------------------------------------------------------------
(* Properties *)

Called == last.op # "none"

\* the text t contains the text p
IsInfix(p, t) ==
    \E i \in 0..Len(t) :
        /\ i + Len(p) <= Len(t)
        /\ SubSeq(t, i + 1, i + Len(p)) = p

\* the request FQDN without its one trailing dot, said without removeDOT
IsNormalizedDomain(domain, fqdn) ==
    IF Len(fqdn) > 0 /\ fqdn[Len(fqdn)] = "." THEN domain \o <<".">> = fqdn
    ELSE domain = fqdn

\* C1: a Present that repeats the previous Present, with the same request and
\* nothing changed in between, returns the same error (or none) and leaves the
\* provider's zone as the first one left it.
C1_PresentIdempotent ==
    [][(last.op = "Present" /\ last'.op = "Present" /\ last'.ch = last.ch)
        => (last'.out.err = last.out.err /\ zone' = zone)]_vars

C1_Witness ==
    /\ last.op = "Present"
    /\ last.again
    /\ last.out.err = NoErr
    /\ <<removeDOT(last.ch.ResolvedFQDN), last.ch.Key>> \in zone

\* C2: when several TXT records exist for the record name, a successful CleanUp
\* removes the record whose value is the request's key and no other record.
C2_CleanUpRemovesOnlyOwnRecord ==
    [][(last'.op = "CleanUp"
        /\ last'.out.err = NoErr
        /\ Cardinality({r \in zone : r[1] = removeDOT(last'.ch.ResolvedFQDN)}) > 1)
        => zone' = zone \ {<<removeDOT(last'.ch.ResolvedFQDN), last'.ch.Key>>}]_vars

\* C3: no error a call returns contains the API token it resolved.
C3_ErrorsOmitCredential ==
    (Called /\ last.out.err # NoErr /\ last.out.apiKey # <<>>)
        => ~IsInfix(last.out.apiKey, last.out.err)

\* C4: a call returns no error exactly when it made the exchange, the exchange
\* completed and the body decoded to success=true; and when the body says
\* success=false with an error string, the returned error includes that string.
C4_ResponseDecidesOutcome ==
    Called =>
        /\ last.out.sent = <<>> => last.out.err # NoErr
        /\ last.out.sent # <<>> =>
            LET got == clientGet(last.out.sent[1])
            IN  /\ last.out.err = NoErr
                    <=> (got.err = NoErr /\ got.body.kind = "object"
                         /\ got.body.success = "true")
                /\ (got.err = NoErr /\ got.body.kind = "object"
                    /\ got.body.success = "false" /\ got.body.error # <<>>)
                    => IsInfix(got.body.error, last.out.err)

C4_Witness ==
    /\ last.op = "Present"
    /\ IsInfix(<<"rate limited">>, last.out.err)

\* C5: credential resolution fails with the secret-not-found error when the
\* secret is not in the request's namespace, with the different key-not-found
\* error when the secret is there and lacks the key, and returns the field's
\* bytes only when both are there.
C5_ResolutionDistinguishesFailures ==
    (Called /\ last.out.gets # <<>>) =>
        LET namespace == last.ch.ResourceNamespace
            ref == last.ch.Config.Raw
            there == ref.name = SecretName /\ secrets[namespace].exists
            hasKey == there /\ ref.key \in DOMAIN secrets[namespace].Data
        IN  /\ ~there => /\ IsInfix(<<"unable to get secret ">>, last.out.keyErr)
                         /\ ~IsInfix(<<" not found in secret ", "\"">>, last.out.keyErr)
            /\ (there /\ ~hasKey) =>
                         /\ IsInfix(<<" not found in secret ", "\"">>, last.out.keyErr)
                         /\ ~IsInfix(<<"unable to get secret ">>, last.out.keyErr)
            /\ hasKey => /\ last.out.keyErr = NoErr
                         /\ last.out.apiKey = secrets[namespace].Data[ref.key]
            /\ last.out.apiKey # <<>> => hasKey

C5_Witness ==
    /\ Called
    /\ IsInfix(<<" not found in secret ", "\"">>, last.out.keyErr)

\* C6 as stated: for every string d, removeDOT(removeDOT(d)) = removeDOT(d).
C6_NormalizeIdempotent ==
    Len(normOut) >= 2 => normOut[2] = normOut[1]

\* C6: for every string d that does not end in two dots,
\* removeDOT(removeDOT(d)) = removeDOT(d).
C6_NormalizeIdempotentOneDot ==
    (Len(normOut) >= 2 /\ ~HasSuffix(normIn, <<".", ".">>)) => normOut[2] = normOut[1]

C6_Witness ==
    /\ Len(normOut) >= 2
    /\ HasSuffix(normIn, <<"a", ".">>)
    /\ normOut[2] = normOut[1]
    /\ normOut[1] # normIn

\* C7 as stated: a nil or null payload gives the zero config and no error, and
\* a decode error is returned only for malformed JSON.
C7_DecodeErrorOnlyIfMalformed ==
    Called =>
        /\ (last.ch.Config.isNil \/ last.ch.Config.Raw.kind = "null")
            => (last.out.cfgErr = NoErr /\ last.out.cfg = ZeroConfig)
        /\ last.out.cfgErr # NoErr
            => (~last.ch.Config.isNil /\ last.ch.Config.Raw.kind = "malformed")

\* C7: a nil or null payload gives the zero config and no error, and a decode
\* error is returned only for a payload that is there and is malformed JSON or
\* well-formed JSON that is not an object (here an array).
C7_DecodeErrorOnlyIfUndecodable ==
    Called =>
        /\ (last.ch.Config.isNil \/ last.ch.Config.Raw.kind = "null")
            => (last.out.cfgErr = NoErr /\ last.out.cfg = ZeroConfig)
        /\ last.out.cfgErr # NoErr
            => (~last.ch.Config.isNil
                /\ last.ch.Config.Raw.kind \in {"malformed", "array"})

C7_Witness ==
    /\ Called
    /\ last.ch.Config.isNil
    /\ last.out.cfgErr = NoErr
    /\ last.out.cfg = ZeroConfig

\* C8: the URL CleanUp sends carries exactly token, domain (the FQDN without
\* its trailing dot) and action=delete, and the key nowhere; the URL Present
\* sends carries the token, the same domain and value equal to the key.
C8_RequestContents ==
    (Called /\ last.out.sent # <<>>) =>
        LET q == ParseQuery(last.out.sent[1])
            domain == QueryGet(q, <<"domain">>)
        IN  /\ IsNormalizedDomain(domain, last.ch.ResolvedFQDN)
            /\ <<<<"token">>, last.out.apiKey>> \in q
            /\ last.op = "CleanUp" =>
                /\ q = {<<<<"token">>, last.out.apiKey>>, <<<<"domain">>, domain>>,
                        <<<<"action">>, <<"delete">>>>}
                /\ ~IsInfix(last.ch.Key, last.out.sent[1])
            /\ last.op = "Present" =>
                q = {<<<<"token">>, last.out.apiKey>>, <<<<"domain">>, domain>>,
                     <<<<"value">>, last.ch.Key>>}

C8_Witness ==
    /\ last.op = "CleanUp"
    /\ last.out.sent # <<>>
    /\ HasSuffix(last.ch.ResolvedFQDN, <<".">>)

\* C9: a call reads the secret store at most once and issues at most one HTTP
\* request, and the error it returns is the error of the first step that failed.
C9_AtMostOneAttempt ==
    Called =>
        /\ Len(last.out.gets) <= 1
        /\ Len(last.out.sent) <= 1
        /\ last.out.err = IF last.out.cfgErr # NoErr THEN last.out.cfgErr
                          ELSE IF last.out.keyErr # NoErr THEN last.out.keyErr
                          ELSE last.out.reqErr

C9_Witness ==
    /\ Called
    /\ last.out.reqErr # NoErr
    /\ Len(last.out.sent) = 1
    /\ last.out.err = last.out.reqErr

\* C10: a call runs loadConfig, getAPIKey, makeRequest in that order and stops at
\* the first failure: after a config error no secret is read and nothing is
\* sent, after a credential error nothing is sent, and a call that sent
\* nothing leaves the zone as it was.
C10_StepsOrderedAndStopOnFailure ==
    [][last'.op # "none" =>
        /\ \E n \in 1..3 :
                last'.out.steps = SubSeq(<<"loadConfig", "getAPIKey", "makeRequest">>, 1, n)
        /\ (Len(last'.out.steps) >= 2) = (last'.out.gets # <<>>)
        /\ (Len(last'.out.steps) >= 3) = (last'.out.sent # <<>>)
        /\ last'.out.cfgErr # NoErr => Len(last'.out.steps) = 1
        /\ last'.out.keyErr # NoErr => Len(last'.out.steps) = 2
        /\ last'.out.sent = <<>> => zone' = zone]_vars

C10_Witness ==
    /\ last.op = "Present"
    /\ last.out.keyErr # NoErr
    /\ last.out.sent = <<>>
    /\ zone # {}

====
